---- MODULE Spec2Model ----
(***************************************************************************)
(* Model of the in-memory event bus of crypto-event-publisher              *)
(* (core/event_bus.py), its listeners (core/listener.py) and events        *)
(* (core/event.py).  One action per coroutine step: a step runs from one   *)
(* await of the asyncio program to the next.                               *)
(***************************************************************************)
EXTENDS Integers, Sequences, FiniteSets, TLC

\* ---------------------------------------------------------------- bounds
MaxEvents == 2        \* number of publish() calls explored
MaxListeners == 2     \* longest listener list explored
MaxChain == 2         \* longest event-type list and longest filter chain of a listener
MaxLen == 3           \* longest generated string value of a data field
RetriesBound == 3     \* largest max_retries a delivery channel is built with

\* ------------------------------------------------- core/event.py: EventPriority
LOW == 1
MEDIUM == 2
HIGH == 3
CRITICAL == 4

\* The event kinds publishers send: (event_type, priority).
EventKinds ==
    { [event_type |-> "volume_spike", priority |-> LOW],
      [event_type |-> "price_alert", priority |-> CRITICAL] }

\* The listener objects the application registers (main.py).  The console
\* listener is built with no type list and no filter; the Discord handler is
\* built here with a type list and a PriorityFilter (its constructor passes both
\* on to EventListener.__init__), so that either outcome of can_handle occurs.
ListenerIds == {"ConsoleListener", "DiscordWebhookHandler"}

\* EventListener.__init__: event_types (empty list = all types)
event_types(l) ==
    IF l = "DiscordWebhookHandler" THEN <<"price_alert">> ELSE <<>>

\* EventListener.__init__: filters; each entry is the min_priority of a PriorityFilter
filters(l) ==
    IF l = "DiscordWebhookHandler" THEN <<HIGH>> ELSE <<>>

get_name(l) == l

Range(s) == { s[i] : i \in 1..Len(s) }

\* PriorityFilter.filter
PriorityFilter(min_priority, event) == event.priority >= min_priority

\* Variation of can_handle_with: the type list is one more predicate, passed
\* over when the filter chain is not empty and accepts the event.
can_handle_lenient(types, chain, event) ==
    IF chain # <<>> /\ \A i \in 1..Len(chain) : PriorityFilter(chain[i], event)
    THEN TRUE
    ELSE /\ (types = <<>> \/ event.event_type \in Range(types))
         /\ \A i \in 1..Len(chain) : PriorityFilter(chain[i], event)

\* EventListener.can_handle of a listener built with the type list `types` and
\* the filter chain `chain`
can_handle_with(types, chain, event) ==
    IF types # <<>> /\ event.event_type \notin Range(types)
    THEN FALSE
    ELSE \A i \in 1..Len(chain) : PriorityFilter(chain[i], event)

\* EventListener.can_handle of the registered listener l
can_handle(l, event) == can_handle_with(event_types(l), filters(l), event)

\* ------------------------------------------- core/generic_event.py: values
\* JSON values as they reach GenericEvent: data values, thresholds, rules
Bool(b) == [t |-> "bool", b |-> b]
Num(m, k) == [t |-> "num", m |-> m, k |-> k]     \* the number m / 10^k
Str(s) == [t |-> "str", s |-> s]                 \* s: the sequence of characters
Dict(d) == [t |-> "dict", d |-> d]               \* d: function from keys to values
Null == [t |-> "null"]
List == [t |-> "list"]                           \* a non-empty list

\* Python truth value of an object
Truthy(v) ==
    CASE v.t = "bool" -> v.b
      [] v.t = "num" -> v.m # 0
      [] v.t = "str" -> v.s # <<>>
      [] v.t = "dict" -> DOMAIN v.d # {}
      [] v.t = "null" -> FALSE
      [] v.t = "list" -> TRUE

Returned(v) == [st |-> "returned", value |-> v]
Raised(exc) == [st |-> "raised", exc |-> exc]

\* GenericEvent.__init__, line 57: notify_threshold or {"always": True}
notify_threshold(rule) ==
    IF Truthy(rule) THEN rule ELSE Dict([key \in {"always"} |-> Bool(TRUE)])

Digits == {"0", "1", "2", "3", "4", "5", "6", "7", "8", "9"}

DigitVal(c) ==
    CASE c = "0" -> 0 [] c = "1" -> 1 [] c = "2" -> 2 [] c = "3" -> 3 [] c = "4" -> 4
      [] c = "5" -> 5 [] c = "6" -> 6 [] c = "7" -> 7 [] c = "8" -> 8 [] c = "9" -> 9

RECURSIVE DigitsVal(_)
DigitsVal(ds) ==
    IF ds = <<>> THEN 0
    ELSE DigitsVal(SubSeq(ds, 1, Len(ds) - 1)) * 10 + DigitVal(ds[Len(ds)])

RECURSIVE Pow10(_)
Pow10(k) == IF k = 0 THEN 1 ELSE 10 * Pow10(k - 1)

\* Variation of Strip: only formatting characters at the two ends are dropped.
StripEnds(s) ==
    LET fmt == {"$", ",", "%", "+"}
        keep == { i \in 1..Len(s) : s[i] \notin fmt }
    IN  IF keep = {} THEN <<>>
        ELSE LET lo == CHOOSE i \in keep : \A j \in keep : i <= j
                 hi == CHOOSE i \in keep : \A j \in keep : i >= j
             IN  SubSeq(s, lo, hi)

\* line 85: value.replace("$", "").replace(",", "").replace("%", "").replace("+", "")
Strip(s) == SelectSeq(s, LAMBDA c : c \notin {"$", ",", "%", "+"})

\* float(str) on a string of signs, dots, digits and letters: an optional "-",
\* then digits with at most one ".", at least one digit; anything else is a
\* ValueError.  The result is the number m / 10^k.
ParseFloat(s) ==
    LET neg == s # <<>> /\ s[1] = "-"
        body == IF neg THEN Tail(s) ELSE s
        dots == { i \in 1..Len(body) : body[i] = "." }
        ds == SelectSeq(body, LAMBDA c : c # ".")
        wellFormed == /\ \A i \in 1..Len(body) : body[i] \in Digits \cup {"."}
                      /\ Cardinality(dots) <= 1
                      /\ ds # <<>>
    IN  IF ~wellFormed THEN [ok |-> FALSE]
        ELSE [ok |-> TRUE,
              m |-> IF neg THEN 0 - DigitsVal(ds) ELSE DigitsVal(ds),
              k |-> IF dots = {} THEN 0
                    ELSE Len(body) - (CHOOSE i \in dots : TRUE)]

\* lines 82-88: the value as a float, or not ok on ValueError / TypeError
ToFloat(value) ==
    CASE value.t = "str" -> ParseFloat(Strip(value.s))
      [] value.t = "num" -> [ok |-> TRUE, m |-> value.m, k |-> value.k]
      [] value.t = "bool" -> [ok |-> TRUE, m |-> IF value.b THEN 1 ELSE 0, k |-> 0]
      [] OTHER -> [ok |-> FALSE]

Less(a, b) == a.m * Pow10(b.k) < b.m * Pow10(a.k)
Abs(a) == [a EXCEPT !.m = IF a.m < 0 THEN 0 - a.m ELSE a.m]

\* the comparison of lines 90-112 for the operator op; comparing a float with
\* a str, None or list raises TypeError
Compare(op, v, n) ==
    IF n.t \notin {"num", "bool"} THEN Raised("TypeError")
    ELSE LET N == ToFloat(n)
         IN  Returned(CASE op = "gt" -> Less(N, v)
                        [] op = "gte" -> ~Less(v, N)
                        [] op = "lt" -> Less(v, N)
                        [] op = "lte" -> ~Less(N, v)
                        [] op = "abs_gte" -> ~Less(Abs(v), N)
                        [] op = "abs_gt" -> Less(N, Abs(v)))

\* Variation of Operators: the two absolute-value operators are tested first.
OperatorsAbsFirst == << "abs_gte", "abs_gt", "gt", "gte", "lt", "lte" >>

\* the operators in the order lines 90-112 test them
Operators == << "gt", "gte", "lt", "lte", "abs_gte", "abs_gt" >>

\* Variation of should_notify's field rule: a field rule whose field is absent
\* or not numeric falls through to the default.
FieldRuleLenient(data, d) ==
    IF d["field"].t = "list" THEN Raised("TypeError")
    ELSE IF d["field"].s \notin DOMAIN data THEN Returned(TRUE)
    ELSE LET v == ToFloat(data[d["field"].s])
             ops == SelectSeq(Operators, LAMBDA op : op \in DOMAIN d)
         IN  IF ~v.ok THEN Returned(TRUE)
             ELSE IF ops # <<>> THEN Compare(ops[1], v, d[ops[1]])
             ELSE Returned(TRUE)

\* should_notify, lines 74-115, for a rule d with a "field" key
FieldRule(data, d) ==
    IF d["field"].t = "list" THEN Raised("TypeError")     \* unhashable key
    ELSE IF d["field"].s \notin DOMAIN data THEN Returned(FALSE)
    ELSE LET v == ToFloat(data[d["field"].s])
             ops == SelectSeq(Operators, LAMBDA op : op \in DOMAIN d)
         IN  IF ~v.ok THEN Returned(FALSE)
             ELSE IF ops # <<>> THEN Compare(ops[1], v, d[ops[1]])
             ELSE Returned(TRUE)

\* Variation of should_notify: the "never" key is not looked at.
should_notify_no_never(data, threshold) ==
    IF threshold.t # "dict" THEN Raised("AttributeError")
    ELSE LET d == threshold.d
         IN  IF "always" \in DOMAIN d /\ Truthy(d["always"]) THEN Returned(TRUE)
             ELSE IF "field" \in DOMAIN d THEN FieldRule(data, d)
             ELSE Returned(TRUE)

\* GenericEvent.should_notify on an event with this data and this
\* notify_threshold attribute
should_notify(data, threshold) ==
    IF threshold.t # "dict" THEN Raised("AttributeError")     \* no .get
    ELSE LET d == threshold.d
         IN  IF "always" \in DOMAIN d /\ Truthy(d["always"]) THEN Returned(TRUE)
             ELSE IF "never" \in DOMAIN d /\ Truthy(d["never"]) THEN Returned(FALSE)
             ELSE IF "field" \in DOMAIN d THEN FieldRule(data, d)
             ELSE Returned(TRUE)

\* ------------------------------------- core/generic_event.py: construction
LowerCase ==
    << "a", "b", "c", "d", "e", "f", "g", "h", "i", "j", "k", "l", "m", "n", "o", "p", "q", "r", "s", "t", "u", "v", "w", "x", "y", "z" >>
UpperCase ==
    << "A", "B", "C", "D", "E", "F", "G", "H", "I", "J", "K", "L", "M", "N", "O", "P", "Q", "R", "S", "T", "U", "V", "W", "X", "Y", "Z" >>

\* str.upper on ASCII text, character by character
ToUpper(c) ==
    IF \E i \in 1..Len(LowerCase) : LowerCase[i] = c
    THEN UpperCase[CHOOSE i \in 1..Len(LowerCase) : LowerCase[i] = c]
    ELSE c
Upper(s) == [i \in 1..Len(s) |-> ToUpper(s[i])]

\* the members of EventPriority by name (core/event.py)
EventPriority ==
    (<< "L", "O", "W" >> :> LOW) @@ (<< "M", "E", "D", "I", "U", "M" >> :> MEDIUM)
      @@ (<< "H", "I", "G", "H" >> :> HIGH) @@ (<< "C", "R", "I", "T", "I", "C", "A", "L" >> :> CRITICAL)

\* the default of the parameter `priority` (line 28) and of
\* data.get('priority', 'MEDIUM') (http_api.py:118)
DefaultPriority(p) == IF p.t = "absent" THEN Str(<< "M", "E", "D", "I", "U", "M" >>) ELSE p

\* Variation of ParsePriority: only AttributeError is caught, a name that is no
\* member raises KeyError.
ParsePriorityKeyError(priority) ==
    IF priority.t # "str" THEN Returned(MEDIUM)
    ELSE IF Upper(priority.s) \in DOMAIN EventPriority
         THEN Returned(EventPriority[Upper(priority.s)])
         ELSE Raised("KeyError")

\* lines 46-49: EventPriority[priority.upper()]; a value without .upper
\* (AttributeError) and a name that is no member (KeyError) give MEDIUM
ParsePriority(priority) ==
    IF priority.t # "str" THEN Returned(MEDIUM)
    ELSE IF Upper(priority.s) \in DOMAIN EventPriority
         THEN Returned(EventPriority[Upper(priority.s)])
         ELSE Returned(MEDIUM)

\* GenericEvent.__init__: the event constructed, or the exception raised
GenericEventInit(event_type, data, priority, rule) ==
    LET parsed == ParsePriority(DefaultPriority(priority))
    IN  IF parsed.st = "raised" THEN parsed
        ELSE Returned([event_type |-> event_type, data |-> data,
                       priority |-> parsed.value,
                       notify_threshold |-> notify_threshold(rule)])

\* ------------------------------------------------------------------ state
VARIABLES
    listeners,        \* EventBus._listeners (list, duplicates allowed)
    event_queue,      \* EventBus._event_queue: the queued events, FIFO
    unfinished_tasks, \* asyncio.Queue._unfinished_tasks of _event_queue
    running,          \* EventBus._running
    loopPc,           \* position of the start() coroutine
    cur,              \* the event of the dispatch cycle in progress, or NoEvent
    tasks,            \* live handle() coroutines: [ev, idx, lst, st]
    stopPc,           \* position of the stop() coroutine
    nextId,           \* history: id the next published event gets
    dispatched,       \* history: ids of the events in order of cycle start
    faulted,          \* history: some handle() has raised
    stopCalls,        \* history: stop() calls made so far: 0, 1, or 2 for two and more
    stopInflight,     \* history: id of the event in fan-out when stop() was last called (0: none)
    stopQuiet,        \* history: no event was published since stop() was last called
    call,             \* a method call on one listener or event object: its receiver and argument
    result,           \* what that call returned or raised ("none" before it ran)
    hPc,              \* position of DiscordWebhookHandler.handle / _send_webhook
    attempt,          \* _send_webhook: the loop variable `attempt`
    sent,             \* what _send_webhook returned ("none" before it returns)
    trail,            \* history: the attempts made and the sleeps begun, in order
    constructed,      \* history: the events the HTTP handler has constructed, in order
    scheduled,        \* publish(event) coroutines handed to the event loop, not yet run
    loop2Pc,          \* position of the coroutine of a second start() call
    cur2              \* the event of that coroutine's dispatch cycle, or NoEvent

\* the state of the bus
busVars == << listeners, event_queue, unfinished_tasks, running, loopPc, cur,
              tasks, stopPc, nextId, dispatched, faulted, stopCalls,
              stopInflight, stopQuiet >>

\* the state of the objects exercised on their own, outside the bus
deliveryVars == << hPc, attempt, sent, trail >>

\* the state of the ingestion endpoint
ingestVars == << constructed, scheduled >>

\* the state of a second start() coroutine on the same bus
secondLoop == << loop2Pc, cur2 >>

offBus == << call, result, deliveryVars, ingestVars, secondLoop >>

vars == << busVars, offBus >>

NoEvent == [id |-> 0, event_type |-> "", priority |-> 0]

NoCall == [fn |-> "none"]
NoResult == [st |-> "none"]

\* no object is exercised outside the bus
\* no delivery is under way
DeliveryIdle ==
    /\ hPc = "idle"
    /\ attempt = 0
    /\ sent = "none"
    /\ trail = <<>>

\* no request has been served
IngestIdle ==
    /\ constructed = <<>>
    /\ scheduled = <<>>

\* start() was not called a second time
SecondIdle ==
    /\ loop2Pc = "idle"
    /\ cur2 = NoEvent

OffBusIdle ==
    /\ call = NoCall
    /\ result = NoResult
    /\ DeliveryIdle
    /\ IngestIdle
    /\ SecondIdle

\* EventBus.__init__
BusInit ==
    /\ listeners = <<>>
    /\ event_queue = <<>>
    /\ unfinished_tasks = 0
    /\ running = FALSE
    /\ loopPc = "idle"
    /\ cur = NoEvent
    /\ tasks = <<>>
    /\ stopPc = "idle"
    /\ nextId = 1
    /\ dispatched = <<>>
    /\ faulted = FALSE
    /\ stopCalls = 0
    /\ stopInflight = 0
    /\ stopQuiet = FALSE

Init == BusInit /\ OffBusIdle

\* ------------------------------------------------------- listener collection
\* Variation of RemoveFirst: the last occurrence of x is dropped.
RemoveLast(s, x) ==
    LET i == CHOOSE k \in 1..Len(s) : s[k] = x /\ \A j \in (k + 1)..Len(s) : s[j] # x
    IN  [k \in 1..(Len(s) - 1) |-> IF k < i THEN s[k] ELSE s[k + 1]]

\* list.remove(x): drops the first occurrence of x
RemoveFirst(s, x) ==
    LET i == CHOOSE k \in 1..Len(s) : s[k] = x /\ \A j \in 1..(k - 1) : s[j] # x
    IN  [k \in 1..(Len(s) - 1) |-> IF k < i THEN s[k] ELSE s[k + 1]]

\* Variation of register_listener: the fan-out in progress reads the live list,
\* so a listener registered during a cycle is handed the event in flight.
register_listener_live(l) ==
    /\ Len(listeners) < MaxListeners
    /\ listeners' = Append(listeners, l)
    /\ tasks' = IF loopPc = "gather" /\ can_handle(l, cur)
                THEN Append(tasks, [ev |-> cur.id, idx |-> Len(tasks), lst |-> l,
                                    st |-> "running"])
                ELSE tasks
    /\ UNCHANGED << event_queue, unfinished_tasks, running, loopPc, cur,
                    stopPc, nextId, dispatched, faulted, stopCalls,
                    stopInflight, stopQuiet >>
    /\ UNCHANGED offBus

\* EventBus.register_listener
register_listener(l) ==
    /\ Len(listeners) < MaxListeners
    /\ listeners' = Append(listeners, l)
    /\ UNCHANGED << event_queue, unfinished_tasks, running, loopPc, cur,
                    tasks, stopPc, nextId, dispatched, faulted,
                    stopCalls, stopInflight, stopQuiet >>
    /\ UNCHANGED offBus

\* the registrations a bus holds when the collection itself is examined: one
\* more than in the runs of the whole bus, so that a listener registered twice
\* can have another one between its two registrations
MaxRegistered == MaxListeners + 1

\* EventBus.register_listener on a bus that may hold MaxRegistered registrations
register_listener_more(l) ==
    /\ Len(listeners) < MaxRegistered
    /\ listeners' = Append(listeners, l)
    /\ UNCHANGED << event_queue, unfinished_tasks, running, loopPc, cur,
                    tasks, stopPc, nextId, dispatched, faulted,
                    stopCalls, stopInflight, stopQuiet >>
    /\ UNCHANGED offBus

\* EventBus.unregister_listener
unregister_listener(l) ==
    /\ listeners' = IF l \in Range(listeners) THEN RemoveFirst(listeners, l)
                    ELSE listeners
    /\ UNCHANGED << event_queue, unfinished_tasks, running, loopPc, cur,
                    tasks, stopPc, nextId, dispatched, faulted,
                    stopCalls, stopInflight, stopQuiet >>
    /\ UNCHANGED offBus

\* ------------------------------------------------------------------ publish
\* Variation of QueuePut: a priority queue, the event goes ahead of every queued
\* event of lower priority.
QueuePutByPriority(q, event) ==
    LET ahead == SelectSeq(q, LAMBDA e : e.priority >= event.priority)
        behind == SelectSeq(q, LAMBDA e : e.priority < event.priority)
    IN  ahead \o <<event>> \o behind

\* asyncio.Queue.put on the unbounded queue: append, count the unfinished task
QueuePut(q, event) == Append(q, event)

\* EventBus.publish
publish(kind) ==
    /\ nextId <= MaxEvents
    /\ LET event == [id |-> nextId, event_type |-> kind.event_type,
                     priority |-> kind.priority]
       IN  event_queue' = QueuePut(event_queue, event)
    /\ unfinished_tasks' = unfinished_tasks + 1
    /\ nextId' = nextId + 1
    /\ stopQuiet' = FALSE
    /\ UNCHANGED << listeners, running, loopPc, cur, tasks, stopPc, dispatched,
                    faulted, stopCalls, stopInflight >>
    /\ UNCHANGED offBus

\* --------------------------------------------------------------- dispatch loop
\* Variation of WhileRunning: `while True`, the loop does not look at the flag.
WhileForever(run) == "get"

\* `while self._running` of start(): where the loop goes after a cycle
WhileRunning(run) == IF run THEN "get" ELSE "exited"

\* asyncio.Queue.join is released when task_done() brings the count to zero
JoinReleased(pc, unfinished) ==
    IF pc = "join" /\ unfinished = 0 THEN "woken" ELSE pc

\* Variation of Matched: every registered listener is handed the event.
MatchedAll(ls, event) == ls

\* _process_event, lines 67-72: the listeners whose can_handle is true, in list order
Matched(ls, event) == SelectSeq(ls, LAMBDA l : can_handle(l, event))

\* one handle(event) coroutine per matched listener, handed to gather at once;
\* idx is its position in the local list `tasks`
NewTasks(ls, event) ==
    [i \in 1..Len(Matched(ls, event)) |->
        [ev |-> event.id, idx |-> i - 1, lst |-> Matched(ls, event)[i],
         st |-> "running"]]

\* EventBus.start up to its first await
start ==
    /\ loopPc = "idle"
    /\ running' = TRUE
    /\ loopPc' = "get"
    /\ UNCHANGED << listeners, event_queue, unfinished_tasks, cur, tasks,
                    stopPc, nextId, dispatched, faulted, stopCalls,
                    stopInflight, stopQuiet >>
    /\ UNCHANGED offBus

\* start(): wait_for(get) returns an event; _process_event selects the listeners.
\* With no matched listener the cycle ends in the same step (warning, task_done,
\* while check); otherwise the loop awaits gather.
LoopGet ==
    /\ loopPc = "get"
    /\ event_queue # <<>>
    /\ LET event == Head(event_queue)
           new == NewTasks(listeners, event)
       IN  /\ event_queue' = Tail(event_queue)
           /\ dispatched' = Append(dispatched, event.id)
           /\ IF new # <<>>
              THEN /\ tasks' = tasks \o new
                   /\ cur' = event
                   /\ loopPc' = "gather"
                   /\ UNCHANGED << unfinished_tasks, stopPc >>
              ELSE /\ unfinished_tasks' = unfinished_tasks - 1
                   /\ stopPc' = JoinReleased(stopPc, unfinished_tasks')
                   /\ loopPc' = WhileRunning(running)
                   /\ UNCHANGED << tasks, cur >>
    /\ UNCHANGED << listeners, running, nextId, faulted, stopCalls,
                    stopInflight, stopQuiet >>
    /\ UNCHANGED offBus

\* start(): wait_for times out on the empty queue, `continue`, while check
LoopTimeout ==
    /\ loopPc = "get"
    /\ event_queue = <<>>
    /\ loopPc' = WhileRunning(running)
    /\ UNCHANGED << listeners, event_queue, unfinished_tasks, running, cur,
                    tasks, stopPc, nextId, dispatched, faulted,
                    stopCalls, stopInflight, stopQuiet >>
    /\ UNCHANGED offBus

\* ------------------------------------------------------------------ fan-out
\* the handle() coroutines gather awaits: those of the event in flight
CycleTasks == { i \in 1..Len(tasks) : tasks[i].ev = cur.id }

Finished(st) == st \in {"ok", "failed", "cancelled"}

\* Variation of GatherDone: the loop resumes at the first finished awaitable.
GatherDoneFirst(ts, I) == \E i \in I : Finished(ts[i].st)

\* asyncio.gather(*tasks, return_exceptions=True) resumes the loop when every
\* awaitable has finished
GatherDone(ts, I) == \A i \in I : Finished(ts[i].st)

\* a handle() returns normally: gather keeps its result
ReturnTask(ts, i) == [ts EXCEPT ![i].st = "ok"]

\* Variation of FailTask: the first exception cancels the sibling awaitables
\* that have not finished.
FailTaskCancelSiblings(ts, i) ==
    [j \in 1..Len(ts) |->
        IF j = i THEN [ts[j] EXCEPT !.st = "failed"]
        ELSE IF ts[j].ev = ts[i].ev /\ ~Finished(ts[j].st)
             THEN [ts[j] EXCEPT !.st = "cancelled"]
             ELSE ts[j]]

\* a handle() raises: with return_exceptions=True the exception is that task's
\* result and the sibling awaitables are left alone
FailTask(ts, i) == [ts EXCEPT ![i].st = "failed"]

\* a listener's handle(event) returns
HandleReturn(i) ==
    /\ i \in 1..Len(tasks)
    /\ tasks[i].st = "running"
    /\ tasks' = ReturnTask(tasks, i)
    /\ UNCHANGED << listeners, event_queue, unfinished_tasks, running, loopPc,
                    cur, stopPc, nextId, dispatched, faulted,
                    stopCalls, stopInflight, stopQuiet >>
    /\ UNCHANGED offBus

\* a listener's handle(event) raises
HandleRaise(i) ==
    /\ i \in 1..Len(tasks)
    /\ tasks[i].st = "running"
    /\ tasks' = FailTask(tasks, i)
    /\ faulted' = TRUE
    /\ UNCHANGED << listeners, event_queue, unfinished_tasks, running, loopPc,
                    cur, stopPc, nextId, dispatched, stopCalls,
                    stopInflight, stopQuiet >>
    /\ UNCHANGED offBus

\* _process_event, lines 79-84: results whose logging evaluates
\* self._listeners[i] with i past the end of the current list (IndexError)
BadIndex(ts, I, ls) == { i \in I : ts[i].st = "failed" /\ ts[i].idx >= Len(ls) }

\* the error records written before the loop over the results ends or raises:
\* each names self._listeners[i] of the list as it is now
ErrorLog(ts, I, ls) ==
    { [idx |-> ts[i].idx, name |-> get_name(ls[ts[i].idx + 1]), lst |-> ts[i].lst] :
        i \in { k \in I : /\ ts[k].st = "failed"
                          /\ \A b \in BadIndex(ts, I, ls) : ts[k].idx < ts[b].idx } }

\* start(), lines 100-106: task_done() runs only when _process_event returned;
\* an exception out of it is caught and logged by `except Exception`
AfterProcess(unfinished, raised) ==
    IF raised THEN unfinished ELSE unfinished - 1

\* Variation of LoopAfter: no `except Exception`, what _process_event raises
\* ends the start() coroutine.
LoopAfterUncaught(run, raised) == IF raised THEN "exited" ELSE WhileRunning(run)

\* start(), lines 96-106: `except Exception` logs what _process_event raised and
\* the loop goes on to its while check, as it does after a clean cycle
LoopAfter(run, raised) == WhileRunning(run)

\* start(): gather has every result; the failures are logged, the event is
\* acknowledged, and the while condition is evaluated
LoopJoin ==
    /\ loopPc = "gather"
    /\ GatherDone(tasks, CycleTasks)
    /\ LET raised == BadIndex(tasks, CycleTasks, listeners) # {}
       IN  /\ unfinished_tasks' = AfterProcess(unfinished_tasks, raised)
    /\ stopPc' = JoinReleased(stopPc, unfinished_tasks')
    /\ tasks' = SelectSeq(tasks, LAMBDA t : ~(t.ev = cur.id /\ Finished(t.st)))
    /\ cur' = NoEvent
    /\ loopPc' = LoopAfter(running, BadIndex(tasks, CycleTasks, listeners) # {})
    /\ UNCHANGED << listeners, event_queue, running, nextId, dispatched,
                    faulted, stopCalls, stopInflight, stopQuiet >>
    /\ UNCHANGED offBus

\* --------------------------------------------------------------------- stop
\* Variation of JoinBlocks: stop() does not await the join.
JoinBlocksNever(unfinished) == FALSE

\* asyncio.Queue.join: the caller is suspended while tasks are unfinished
JoinBlocks(unfinished) == unfinished > 0

\* EventBus.stop up to its await
stop ==
    /\ loopPc # "idle"
    /\ stopPc \in {"idle", "returned"}
    /\ running' = FALSE
    /\ stopPc' = IF JoinBlocks(unfinished_tasks) THEN "join" ELSE "returned"
    /\ stopCalls' = IF stopCalls = 0 THEN 1 ELSE 2
    /\ stopInflight' = IF loopPc = "gather" THEN cur.id ELSE 0
    /\ stopQuiet' = TRUE
    /\ UNCHANGED << listeners, event_queue, unfinished_tasks, loopPc, cur,
                    tasks, nextId, dispatched, faulted >>
    /\ UNCHANGED offBus

\* EventBus.stop resumes after join() was released, and returns
StopReturn ==
    /\ stopPc = "woken"
    /\ stopPc' = "returned"
    /\ UNCHANGED << listeners, event_queue, unfinished_tasks, running, loopPc,
                    cur, tasks, nextId, dispatched, faulted, stopCalls,
                    stopInflight, stopQuiet >>
    /\ UNCHANGED offBus

\* ------------------------------------------------- a second start() call
\* EventBus.start called while the coroutine of an earlier start() call has
\* not ended (or has ended): nothing in start() looks at the run state, it sets
\* _running and enters its own loop
start_again ==
    /\ loopPc # "idle"
    /\ loop2Pc = "idle"
    /\ running' = TRUE
    /\ loop2Pc' = "get"
    /\ UNCHANGED << listeners, event_queue, unfinished_tasks, loopPc, cur, tasks,
                    stopPc, nextId, dispatched, faulted, stopCalls,
                    stopInflight, stopQuiet, cur2 >>
    /\ UNCHANGED << call, result, deliveryVars, ingestVars >>

\* the handle() coroutines the second coroutine's gather awaits
CycleTasks2 == { i \in 1..Len(tasks) : tasks[i].ev = cur2.id }

\* LoopGet of the second coroutine
Loop2Get ==
    /\ loop2Pc = "get"
    /\ event_queue # <<>>
    /\ LET event == Head(event_queue)
           new == NewTasks(listeners, event)
       IN  /\ event_queue' = Tail(event_queue)
           /\ dispatched' = Append(dispatched, event.id)
           /\ IF new # <<>>
              THEN /\ tasks' = tasks \o new
                   /\ cur2' = event
                   /\ loop2Pc' = "gather"
                   /\ UNCHANGED << unfinished_tasks, stopPc >>
              ELSE /\ unfinished_tasks' = unfinished_tasks - 1
                   /\ stopPc' = JoinReleased(stopPc, unfinished_tasks')
                   /\ loop2Pc' = WhileRunning(running)
                   /\ UNCHANGED << tasks, cur2 >>
    /\ UNCHANGED << listeners, running, loopPc, cur, nextId, faulted, stopCalls,
                    stopInflight, stopQuiet >>
    /\ UNCHANGED << call, result, deliveryVars, ingestVars >>

\* LoopTimeout of the second coroutine
Loop2Timeout ==
    /\ loop2Pc = "get"
    /\ event_queue = <<>>
    /\ loop2Pc' = WhileRunning(running)
    /\ UNCHANGED << busVars, cur2 >>
    /\ UNCHANGED << call, result, deliveryVars, ingestVars >>

\* LoopJoin of the second coroutine
Loop2Join ==
    /\ loop2Pc = "gather"
    /\ GatherDone(tasks, CycleTasks2)
    /\ LET raised == BadIndex(tasks, CycleTasks2, listeners) # {}
       IN  /\ unfinished_tasks' = AfterProcess(unfinished_tasks, raised)
           /\ loop2Pc' = LoopAfter(running, raised)
    /\ stopPc' = JoinReleased(stopPc, unfinished_tasks')
    /\ tasks' = SelectSeq(tasks, LAMBDA t : ~(t.ev = cur2.id /\ Finished(t.st)))
    /\ cur2' = NoEvent
    /\ UNCHANGED << listeners, event_queue, running, loopPc, cur, nextId,
                    dispatched, faulted, stopCalls, stopInflight, stopQuiet >>
    /\ UNCHANGED << call, result, deliveryVars, ingestVars >>

\* ------------------------------------------------ calls on single objects
SeqsUpTo(S, n) == UNION { [1..k -> S] : k \in 0..n }

EventTypes == { kind.event_type : kind \in EventKinds }

Priorities == {LOW, MEDIUM, HIGH, CRITICAL}

\* listener.can_handle(event), for listeners built with any type list and any
\* chain of PriorityFilters
CanHandleCalls ==
    [fn : {"can_handle"},
     event_types : SeqsUpTo(EventTypes, MaxChain),
     filters : SeqsUpTo(Priorities, MaxChain),
     event : [event_type : EventTypes, priority : Priorities]]

\* the characters string values are generated from: the four formatting
\* characters, a sign, a dot, two digits and a letter
Chars == {"$", ",", "%", "+", "-", ".", "3", "8", "x"}

\* string values of the documentation and the tests (generic_event.py:18,
\* tests/test_publisher.py)
Samples ==
    { << "+", "5", ".", "3", "%" >>, << "-", "3", ".", "2", "%" >>,
      << "+", "0", ".", "8", "%" >>, << "$", "4", "5", ",", "0", "0", "0" >>,
      << "3", ".", "5", "x" >> }

\* values of the data field "change": strings, numbers, null, a list, true
Values ==
    { Str(s) : s \in SeqsUpTo(Chars, MaxLen) \cup Samples }
      \cup { Num(0 - 30, 1), Num(8, 1), Num(20, 1), Num(3, 0) }
      \cup { Null, List, Bool(TRUE) }

\* event data: a map that always has "symbol" and may have "change"
DataMaps ==
    { [key \in {"symbol"} |-> Str(<< "x" >>)] }
      \cup { [key \in {"symbol", "change"} |->
                 IF key = "change" THEN v ELSE Str(<< "x" >>)] : v \in Values }

\* thresholds N of a rule: 2.0 and 3, and two that are no numbers
Thresholds == { Num(20, 1), Num(3, 0), Str(<< "3" >>), Null }

\* the value of a rule's "field" key: the name of a data field, or a list
FieldNames == { [t |-> "name", s |-> "change"], List }

\* rules made of "always" and "never" (the empty rule among them)
FlagRules ==
    { Dict([key \in K |-> Bool(b)]) : K \in SUBSET {"always", "never"}, b \in BOOLEAN }

\* rules with a "field" key and at most one more key: one of the six operators
\* or a key that is no operator
FieldRules ==
    { Dict([key \in {"field"} \cup K |-> IF key = "field" THEN F ELSE N]) :
        K \in {{}} \cup { {op} : op \in Range(Operators) \cup {"label"} },
        F \in FieldNames, N \in Thresholds }

\* what a publisher may send as notify_threshold: nothing, a string, a dict
Rules ==
    { Null, Str(<< "x" >>), Dict([key \in {"label"} |-> Num(3, 0)]) }
      \cup FlagRules \cup FieldRules

\* rules of several keys: each of "always" and "never" absent, true or false,
\* the field "change", and any set of the six operators, each with 2.0 or 3
MixedRules ==
    LET flags == UNION { [K -> {Bool(TRUE), Bool(FALSE)}] :
                            K \in SUBSET {"always", "never"} }
        ops == UNION { [K -> {Num(20, 1), Num(3, 0)}] :
                          K \in SUBSET Range(Operators) }
    IN  { Dict(("field" :> [t |-> "name", s |-> "change"]) @@ fl @@ o) :
             fl \in flags, o \in ops }

\* the event data those rules are evaluated on: the field absent, numbers on
\* both sides of the thresholds, a formatted string and a string that is no
\* number
MixedData ==
    { [key \in {"symbol"} |-> Str(<< "x" >>)] }
      \cup { [key \in {"symbol", "change"} |->
                 IF key = "change" THEN v ELSE Str(<< "x" >>)] :
               v \in { Num(0 - 30, 1), Num(8, 1), Num(20, 1), Num(3, 0),
                       Str(<< "-", "3", ".", "2", "%" >>),
                       Str(<< "3", ".", "5", "x" >>) } }

\* should_notify() on an event built with a rule of several keys
PrecedenceCalls == [fn : {"should_notify"}, data : MixedData, rule : MixedRules]

\* GenericEvent(event_type, data, priority, rule).should_notify()
ShouldNotifyCalls == [fn : {"should_notify"}, data : DataMaps, rule : Rules]

\* the call event.should_notify() runs, on the event as constructed
CallShouldNotify ==
    /\ call.fn = "should_notify"
    /\ result = NoResult
    /\ result' = should_notify(call.data, notify_threshold(call.rule))
    /\ UNCHANGED << busVars, call, deliveryVars, ingestVars, secondLoop >>

\* the call listener.can_handle(event) runs
CallCanHandle ==
    /\ call.fn = "can_handle"
    /\ result = NoResult
    /\ result' = Returned(can_handle_with(call.event_types, call.filters, call.event))
    /\ UNCHANGED << busVars, call, deliveryVars, ingestVars, secondLoop >>

\* what a publisher may send as priority: the four names, names in other
\* letter case, strings that name no level, values that are no string, nothing
PriorityValues ==
    { Str(n) : n \in DOMAIN EventPriority }
      \cup { Str(<< "h", "i", "g", "h" >>), Str(<< "C", "r", "i", "t", "i", "c", "a", "l" >>), Str(<< "U", "R", "G", "E", "N", "T" >>),
             Str(<< " ", "H", "I", "G", "H" >>), Str(<< "m", "e", "d" >>), Str(<<>>) }
      \cup { Null, Num(3, 0), Bool(TRUE), List, Dict(<<>>), [t |-> "absent"] }

\* GenericEvent(event_type, data, priority, rule)
ConstructCalls ==
    [fn : {"GenericEvent"}, event_type : EventTypes,
     data : { [key \in {"symbol"} |-> Str(<< "x" >>)] },
     priority : PriorityValues,
     rule : { Null, Dict([key \in {"never"} |-> Bool(TRUE)]) }]

\* the constructor call runs
CallConstruct ==
    /\ call.fn = "GenericEvent"
    /\ result = NoResult
    /\ result' = GenericEventInit(call.event_type, call.data, call.priority, call.rule)
    /\ UNCHANGED << busVars, call, deliveryVars, ingestVars, secondLoop >>

\* ------------------------------------- notifications/discord_handler.py
\* What one `await run_in_executor(None, self._send_request, payload)` gives
\* _send_webhook, by the classes its handlers tell apart (lines 120-137):
\*   "returned"          _send_request returned.  As written (lines 141-164) it
\*                       posts with requests.Session and only prints the status,
\*                       so a response of any status, 429 and 500 too, ends here.
\*   "HTTPError"         urllib.error.HTTPError with its code and, for 429, its
\*                       Retry-After header: absent, "2", or not an integer.
\*   "URLError"          urllib.error.URLError.
\*   "RequestException"  what requests raises when the transport fails
\*                       (connection refused, timeout); it is no URLError.
\*   "Exception"         any other failure inside the attempt.
AttemptResults ==
    [r : {"returned"}, status : {"204", "429", "500"}]
      \cup [r : {"HTTPError"}, code : {"429"}, retry_after : {"absent", "2", "x"}]
      \cup [r : {"HTTPError"}, code : {"500"}]
      \cup { [r |-> "URLError"], [r |-> "RequestException"], [r |-> "Exception"] }

\* line 122: int(e.headers.get("Retry-After", 1)); a header that is no integer
\* makes int() raise ValueError
RetryAfterOk(r) == r.retry_after # "x"
RetryAfter(r) == IF r.retry_after = "absent" THEN 1 ELSE 2

RECURSIVE Pow2(_)
Pow2(n) == IF n = 0 THEN 1 ELSE 2 * Pow2(n - 1)

\* the events handle() is given: their data and the rule they were built with
HandleEvents ==
    LET change(v) == [key \in {"symbol", "change"} |->
                         IF key = "change" THEN v ELSE Str(<< "x" >>)]
        absGte == Dict([key \in {"field", "abs_gte"} |->
                          IF key = "field" THEN [t |-> "name", s |-> "change"]
                          ELSE Num(20, 1)])
    IN  [data : { change(Str(s)) : s \in Samples },
         rule : { absGte, Null, Str(<< "x" >>),
                  Dict([key \in {"never"} |-> Bool(TRUE)]),
                  Dict([key \in {"always"} |-> Bool(TRUE)]) }]

\* DiscordWebhookHandler(webhook_url, max_retries=n).handle(event)
HandleCalls ==
    { [fn |-> "handle", data |-> e.data, rule |-> e.rule, max_retries |-> n] :
        e \in HandleEvents, n \in 0..RetriesBound }

\* handle or _send_webhook ends: handle returns None (it drops what
\* _send_webhook returned) or lets the exception through
Finish(res, s) ==
    /\ hPc' = "done"
    /\ result' = res
    /\ sent' = s

\* Variation of LoopNext: the loop is `range(max_retries + 1)`, one more
\* iteration.
LoopNextOneMore(att) ==
    IF att + 1 < call.max_retries + 1
    THEN /\ hPc' = "send"
         /\ attempt' = att + 1
         /\ UNCHANGED << result, sent >>
    ELSE /\ Finish(Returned(Null), "False")
         /\ UNCHANGED attempt

\* the body of iteration `att` is over without a return: the for loop takes
\* the next value of range(max_retries), or ends and line 139 returns False
LoopNext(att) ==
    IF att + 1 < call.max_retries
    THEN /\ hPc' = "send"
         /\ attempt' = att + 1
         /\ UNCHANGED << result, sent >>
    ELSE /\ Finish(Returned(Null), "False")
         /\ UNCHANGED attempt

\* Variation of Skips: handle sends whatever should_notify answers.
SkipsNever(decision) == FALSE

\* handle, line 173: `if not event.should_notify()`
Skips(decision) == ~decision.value

\* handle, lines 173-179, up to the first await of _send_webhook
HandleBegin ==
    /\ call.fn = "handle"
    /\ hPc = "idle"
    /\ LET decision == should_notify(call.data, notify_threshold(call.rule))
       IN  IF decision.st = "raised" THEN Finish(decision, "none")
           ELSE IF Skips(decision) THEN Finish(Returned(Null), "none")
           ELSE IF call.max_retries = 0 THEN Finish(Returned(Null), "False")
           ELSE /\ hPc' = "send"
                /\ UNCHANGED << result, sent >>
    /\ UNCHANGED << busVars, call, attempt, trail, ingestVars, secondLoop >>

\* Variation of Unexpected: an unexpected failure is retried like an HTTP error.
UnexpectedRetried(att) == LoopNext(att)

\* _send_webhook, lines 135-137: `except Exception` logs and returns False
Unexpected(att) ==
    /\ Finish(Returned(Null), "False")
    /\ UNCHANGED attempt

\* _send_webhook, lines 109-139: the executor call of iteration `attempt` is
\* over with result r; the coroutine runs to its next await or to its return
SendAttempt(r) ==
    /\ hPc = "send"
    /\ LET made == Append(trail, [kind |-> "attempt", idx |-> attempt, res |-> r])
           sleep(secs) == /\ hPc' = "sleep"
                          /\ trail' = Append(made, [kind |-> "sleep", secs |-> secs])
                          /\ UNCHANGED << result, sent, attempt >>
       IN  CASE r.r = "returned" ->
                  /\ Finish(Returned(Null), "True")
                  /\ trail' = made
                  /\ UNCHANGED attempt
             [] r.r = "HTTPError" /\ r.code = "429" ->
                  IF RetryAfterOk(r) THEN sleep(RetryAfter(r))
                  ELSE /\ Finish(Raised("ValueError"), "raised")
                       /\ trail' = made
                       /\ UNCHANGED attempt
             [] r.r = "HTTPError" /\ r.code # "429" ->
                  /\ LoopNext(attempt)
                  /\ trail' = made
             [] r.r = "URLError" ->
                  IF attempt < call.max_retries - 1 THEN sleep(Pow2(attempt))
                  ELSE /\ LoopNext(attempt)
                       /\ trail' = made
             [] OTHER ->
                  /\ Unexpected(attempt)
                  /\ trail' = made
    /\ UNCHANGED << busVars, call, ingestVars, secondLoop >>

\* _send_webhook: an asyncio.sleep of lines 124 or 133 is over
SleepDone ==
    /\ hPc = "sleep"
    /\ LoopNext(attempt)
    /\ UNCHANGED << busVars, call, trail, ingestVars, secondLoop >>

\* ------------------------------------------------------- api/http_api.py
\* The endpoint serves requests once EventAPIServer.start has run, with
\* event_publisher = EventBus.publish and event_loop set (main.py:73-76).
Response(status) == [st |-> "response", status |-> status]

\* data.get(key) / data.get(key, default) on the parsed JSON object
JsonGet(v, default) == IF v.t = "absent" THEN default ELSE v

\* the JSON objects of request bodies: each key present or not
JsonObjects ==
    [t : {"object"},
     event_type : { [t |-> "absent"], Null, Str(<<>>) }
                    \cup { [t |-> "type", name |-> n] : n \in EventTypes },
     priority : { [t |-> "absent"], Null, Str(<< "H", "I", "G", "H" >>) },
     notify_threshold : { [t |-> "absent"], Str(<< "x" >>) }]

\* request bodies: none (Content-Length 0 or absent), text that is no JSON,
\* bytes that are no UTF-8, and JSON text: an object, an array, a string
Bodies ==
    { [kind |-> "empty"], [kind |-> "text"], [kind |-> "bytes"] }
      \cup [kind : {"json"}, value : JsonObjects \cup { List, Str(<< "x" >>) }]

\* a body the endpoint accepts
WellFormed ==
    [kind |-> "json",
     value |-> [t |-> "object", event_type |-> [t |-> "type", name |-> "price_alert"],
                priority |-> Str(<< "H", "I", "G", "H" >>),
                notify_threshold |-> [t |-> "absent"]]]

\* POST requests: any body to /event, and requests to another path
Requests ==
    [fn : {"POST"}, path : {"/event"}, body : Bodies]
      \cup [fn : {"POST"}, path : {"/events"}, body : {[kind |-> "empty"], WellFormed}]

\* line 121: `if not event_type`; the name of an event type is a non-empty
\* string
Missing(event_type) == event_type.t # "type" /\ ~Truthy(event_type)

\* _handle_universal_event: the response, and the event constructed and handed
\* to run_coroutine_threadsafe, if any
handle_universal_event(data) ==
    IF data.t # "object"
    THEN [response |-> Response("500"), made |-> <<>>]      \* no .get, line 156
    ELSE LET event_type == JsonGet(data.event_type, Null)
             made == GenericEventInit(IF event_type.t = "type" THEN event_type.name
                                      ELSE event_type,
                                      [key \in {"symbol"} |-> Str(<< "x" >>)],
                                      data.priority,
                                      JsonGet(data.notify_threshold, Null))
         IN  IF Missing(event_type)
             THEN [response |-> Response("400"), made |-> <<>>]
             ELSE IF made.st = "raised"
             THEN [response |-> Response("400"), made |-> <<>>]
             ELSE LET event == made.value
                      will_notify == should_notify(event.data, event.notify_threshold)
                  IN  [response |-> IF will_notify.st = "raised"
                                    THEN Response("500")       \* lines 152, 156-158
                                    ELSE Response("200"),
                       made |-> << event >>]

\* do_POST, lines 69-94
do_POST_outcome(req) ==
    IF req.path # "/event"
    THEN [response |-> Response("404"), made |-> <<>>]
    ELSE IF req.body.kind = "empty"
    THEN [response |-> Response("400"), made |-> <<>>]
    ELSE IF req.body.kind = "bytes"       \* body.decode raises, nothing catches it
    THEN [response |-> Raised("UnicodeDecodeError"), made |-> <<>>]
    ELSE IF req.body.kind = "text"        \* json.JSONDecodeError, line 89
    THEN [response |-> Response("400"), made |-> <<>>]
    ELSE handle_universal_event(req.body.value)

\* the handler thread serves one POST request
do_POST(req) ==
    /\ Len(constructed) < MaxEvents
    /\ LET outcome == do_POST_outcome(req)
       IN  /\ call' = req
           /\ result' = outcome.response
           /\ constructed' = constructed \o outcome.made
           /\ scheduled' = scheduled \o outcome.made
    /\ UNCHANGED << busVars, deliveryVars, secondLoop >>

\* the event loop runs a scheduled EventBus.publish(event)
PublishScheduled ==
    /\ scheduled # <<>>
    /\ LET event == [id |-> nextId, event_type |-> Head(scheduled).event_type,
                     priority |-> Head(scheduled).priority]
       IN  event_queue' = QueuePut(event_queue, event)
    /\ unfinished_tasks' = unfinished_tasks + 1
    /\ nextId' = nextId + 1
    /\ scheduled' = Tail(scheduled)
    /\ UNCHANGED << listeners, running, loopPc, cur, tasks, stopPc, dispatched,
                    faulted, stopCalls, stopInflight, stopQuiet >>
    /\ UNCHANGED << call, result, deliveryVars, constructed, secondLoop >>

\* ------------------------------------------------------------ specification
Handle == \E i \in 1..Len(tasks) : HandleReturn(i) \/ HandleRaise(i)

Loop == LoopGet \/ LoopTimeout \/ LoopJoin

Next ==
    \/ \E l \in ListenerIds : register_listener(l)
    \/ \E l \in ListenerIds : unregister_listener(l)
    \/ \E kind \in EventKinds : publish(kind)
    \/ start
    \/ LoopGet
    \/ LoopTimeout
    \/ LoopJoin
    \/ \E i \in 1..Len(tasks) : HandleReturn(i)
    \/ \E i \in 1..Len(tasks) : HandleRaise(i)
    \/ stop
    \/ StopReturn

Spec == Init /\ [][Next]_vars

\* The asyncio event loop runs every ready coroutine: the dispatch loop and a
\* resumed stop() take their next step, and every handle() terminates.
FairSpec ==
    /\ Spec
    /\ WF_vars(Loop)
    /\ WF_vars(Handle)
    /\ WF_vars(StopReturn)

\* One call on one object, the bus left as constructed.
CallInit ==
    /\ BusInit
    /\ call \in CanHandleCalls \cup ShouldNotifyCalls \cup ConstructCalls
                 \cup PrecedenceCalls
    /\ result = NoResult
    /\ DeliveryIdle
    /\ IngestIdle
    /\ SecondIdle

CallNext ==
    \/ CallCanHandle
    \/ CallShouldNotify
    \/ CallConstruct

CallSpec == CallInit /\ [][CallNext]_vars

\* One handle(event) call on one delivery channel, the bus left as constructed.
DeliveryInit ==
    /\ BusInit
    /\ call \in HandleCalls
    /\ result = NoResult
    /\ DeliveryIdle
    /\ IngestIdle
    /\ SecondIdle

DeliveryNext ==
    \/ HandleBegin
    \/ \E r \in AttemptResults : SendAttempt(r)
    \/ SleepDone

DeliverySpec == DeliveryInit /\ [][DeliveryNext]_vars

\* The event loop resumes the coroutine: the executor call ends (the request
\* has a timeout) and a sleep ends.
FairDeliverySpec == DeliverySpec /\ WF_vars(DeliveryNext)

\* The ingestion endpoint in front of a bus whose loop is not started.
IngestInit ==
    /\ BusInit
    /\ OffBusIdle

IngestNext ==
    \/ \E req \in Requests : do_POST(req)
    \/ PublishScheduled

IngestSpec == IngestInit /\ [][IngestNext]_vars

\* The bus with start() called up to twice, its listeners registered for good
\* and their handle() returning.
StartsNext ==
    \/ \E l \in ListenerIds : register_listener(l)
    \/ \E kind \in EventKinds : publish(kind)
    \/ start
    \/ LoopGet
    \/ LoopTimeout
    \/ LoopJoin
    \/ \E i \in 1..Len(tasks) : HandleReturn(i)
    \/ stop
    \/ StopReturn
    \/ start_again
    \/ Loop2Get
    \/ Loop2Timeout
    \/ Loop2Join

StartsSpec == Init /\ [][StartsNext]_vars

\* The bus with its listener collection changing while events are dispatched:
\* no stop(), and every handle() returns.
ListenersNext ==
    \/ \E l \in ListenerIds : register_listener_more(l)
    \/ \E l \in ListenerIds : unregister_listener(l)
    \/ \E kind \in EventKinds : publish(kind)
    \/ start
    \/ LoopGet
    \/ LoopTimeout
    \/ LoopJoin
    \/ \E i \in 1..Len(tasks) : HandleReturn(i)

ListenersSpec == Init /\ [][ListenersNext]_vars

TypeOK ==
    /\ Len(listeners) <= MaxListeners
    /\ unfinished_tasks \in 0..MaxEvents
    /\ running \in BOOLEAN
    /\ loopPc \in {"idle", "get", "gather", "exited"}
    /\ stopPc \in {"idle", "join", "woken", "returned"}
    /\ nextId \in 1..(MaxEvents + 1)

\* ------------------------------------------------------------------- claims
IsPrefixOfPublication(d) == \A i \in 1..Len(d) : d[i] = i

\* the listeners of the handle() coroutines of the cycle in progress, in order
Invoked ==
    LET mine == SelectSeq(tasks, LAMBDA t : t.ev = cur.id)
    IN  [i \in 1..Len(mine) |-> mine[i].lst]

CycleBegins == loopPc = "get" /\ loopPc' = "gather"
CycleGoesOn == loopPc = "gather" /\ loopPc' = "gather"
CycleEnds == loopPc = "gather" /\ loopPc' # "gather"

\* a stop() call returns in this step (a repeated call that finds nothing
\* unfinished returns within its own step and changes nothing)
StopReturns == stopPc # "returned" /\ stopPc' = "returned"

\* the second stop() call is made in this step
StopIsCalledAgain == stopCalls = 1 /\ stopCalls' = 2

\* C1: events are dispatched in the order they were published, whatever their
\* priorities: the k-th dispatch cycle is that of the k-th published event
\* (ids are given in publication order).
C1_FifoDispatch == IsPrefixOfPublication(dispatched)

\* a LOW event published first is in its cycle while a CRITICAL one published
\* after it waits in the queue
C1_Witness ==
    /\ loopPc = "gather"
    /\ cur.id = 1 /\ cur.priority = LOW
    /\ event_queue # <<>>
    /\ Head(event_queue).id = 2 /\ Head(event_queue).priority = CRITICAL

\* C2: no pipelining: every live handle() belongs to the event whose cycle is
\* in progress, and whenever the loop is at the point where it takes the next
\* event (and calls can_handle for it) no handle() of an earlier event is live.
C2_NoPipelining ==
    /\ \A i \in 1..Len(tasks) : tasks[i].ev = cur.id
    /\ loopPc # "gather" => tasks = <<>>

\* the second event is in its fan-out to two listeners, after the fan-out of
\* the first event
C2_Witness ==
    /\ dispatched = <<1, 2>>
    /\ loopPc = "gather"
    /\ Len(tasks) = 2
    /\ \A i \in 1..Len(tasks) : tasks[i].ev = 2

\* C3: a handle() that raises leaves every sibling handle() of the same event
\* untouched, and a cycle in which a handle() failed ends only when every
\* handle() of the cycle has finished by itself (returned or raised).
C3_FaultIsolation ==
    [][ /\ \A i \in 1..Len(tasks) :
             (Len(tasks') = Len(tasks) /\ tasks[i].st = "running"
                /\ tasks'[i].st = "failed")
             => \A j \in 1..Len(tasks) : j # i => tasks'[j] = tasks[j]
        /\ (CycleEnds /\ \E i \in CycleTasks : tasks[i].st = "failed")
             => \A i \in CycleTasks : tasks[i].st \in {"ok", "failed"}
      ]_vars

\* one listener's handle() has raised and the other listener's handle() of the
\* same event has returned
C3_Witness ==
    /\ loopPc = "gather"
    /\ \E i, j \in CycleTasks :
          /\ tasks[i].st = "failed" /\ tasks[j].st = "ok"
          /\ tasks[i].lst # tasks[j].lst

\* C4: after a handle() has raised, the loop is alive as long as the bus is
\* Running, and whenever events are queued while the bus is Running, the loop
\* eventually has dispatched every published event, unless stop() is requested
\* first.
C4_LoopSurvivesFault ==
    /\ [](faulted /\ running => loopPc # "exited")
    /\ (faulted /\ running /\ event_queue # <<>>)
          ~> (Len(dispatched) = nextId - 1 \/ ~running)

\* a handle() raised in an earlier cycle and the loop, still Running, is in
\* the fan-out of a later event
C4_Witness ==
    /\ faulted /\ running
    /\ loopPc = "gather"
    /\ cur.id >= 2
    /\ \A i \in CycleTasks : tasks[i].st # "failed"

\* C5: a stop() called while an event is in fan-out has not returned as long as
\* that fan-out is in progress, and no handle() of that event is cancelled.
C5_StopWaitsForFanout ==
    /\ \A i \in 1..Len(tasks) :
          (stopCalls > 0 /\ tasks[i].ev = stopInflight) => tasks[i].st # "cancelled"
    /\ (stopPc = "returned" /\ stopInflight # 0)
          => /\ cur.id # stopInflight
             /\ \A i \in 1..Len(tasks) : tasks[i].ev # stopInflight

\* a stop() called in mid fan-out has returned
C5_Witness == stopPc = "returned" /\ stopInflight # 0

\* C6: once stop() has been requested, publish adds no event to the queue.
C6_NoPublishAfterStop ==
    [][ stopCalls > 0 => Len(event_queue') <= Len(event_queue) ]_vars

\* C7: stop() terminates whatever the number of events pending when it is
\* called; stated for the stop() calls made after the last publish and before
\* any handle() has raised, so that only events published before the call are
\* involved.
C7_StopTerminates ==
    (stopPc = "join" /\ stopQuiet /\ nextId = MaxEvents + 1 /\ ~faulted)
        ~> (stopPc = "returned")

\* C8: whenever stop() returns, the queue is empty and no cycle is in flight.
C8_StopReturnsDrained ==
    [][ StopReturns => (event_queue' = <<>> /\ loopPc' # "gather" /\ tasks' = <<>>) ]_vars

\* C9: a stop() called after an earlier one has returned returns too, and it
\* leaves the run state, the queue and the listeners as the first left them.
C9_StopIdempotent ==
    /\ (stopCalls >= 2 /\ stopPc = "join") ~> (stopPc = "returned")
    /\ [][ StopIsCalledAgain
             => /\ running' = running
                /\ event_queue' = event_queue
                /\ listeners' = listeners ]_vars

\* C10: the listeners invoked for the event in flight are those registered and
\* matching when its cycle began, no step during the cycle alters them, and a
\* cycle that begins uses the collection as it is then.
C10_CycleSnapshot ==
    [][ /\ CycleBegins => Invoked' = Matched(listeners, Head(event_queue))
        /\ CycleGoesOn => Invoked' = Invoked
      ]_vars

\* the collection was changed during the cycle in progress: it no longer
\* selects the listeners that were invoked
C10_Witness ==
    /\ loopPc = "gather"
    /\ Invoked # Matched(listeners, cur)

\* C11: can_handle returns true exactly when the type list is empty or holds
\* the event's type and every filter of the chain accepts the event; it returns
\* false when a non-empty type list lacks the event's type, whatever the filters
\* would answer.
C11_CanHandle ==
    (call.fn = "can_handle" /\ result.st = "returned")
    => LET typeOk == call.event_types = <<>>
                       \/ \E i \in 1..Len(call.event_types) :
                             call.event_types[i] = call.event.event_type
           chainOk == \A i \in 1..Len(call.filters) :
                         call.event.priority >= call.filters[i]
       IN  /\ result.value = (typeOk /\ chainOk)
           /\ ~typeOk => result.value = FALSE

\* can_handle answered false for an event that every filter of a non-empty
\* chain accepts, because the non-empty type list lacks its type
C11_Witness ==
    /\ call.fn = "can_handle" /\ result.st = "returned"
    /\ call.event_types # <<>>
    /\ \A i \in 1..Len(call.event_types) : call.event_types[i] # call.event.event_type
    /\ call.filters # <<>>
    /\ \A i \in 1..Len(call.filters) : call.event.priority >= call.filters[i]
    /\ result.value = FALSE

\* a should_notify call has run / has run on a rule that is a dict
Evaluated == call.fn = "should_notify" /\ result.st # "none"
EvaluatedDict == Evaluated /\ call.rule.t = "dict"

\* the rule is {field: <name>, op: N} with one operator op and a number N
SingleOperator(d, op) ==
    /\ DOMAIN d = {"field", op}
    /\ op \in Range(Operators)
    /\ d["field"].t = "name"
    /\ d[op].t = "num"

\* the comparison `op` between the number v.m / 10^v.k and the number n.m / 10^n.k
Holds(op, v, n) ==
    LET lhs == v.m * Pow10(n.k)
        rhs == n.m * Pow10(v.k)
        mag == IF lhs < 0 THEN 0 - lhs ELSE lhs
    IN  CASE op = "gt" -> lhs > rhs
          [] op = "gte" -> lhs >= rhs
          [] op = "lt" -> lhs < rhs
          [] op = "lte" -> lhs <= rhs
          [] op = "abs_gt" -> mag > rhs
          [] op = "abs_gte" -> mag >= rhs

\* C12: with a rule of one operator and a numeric threshold, should_notify
\* returns true exactly when the field is present, its value coerces to a
\* number and the operator's comparison holds; it returns false when the
\* field is absent or its value is not numeric.
C12_SingleOperatorRule ==
    \A op \in Range(Operators) :
        (EvaluatedDict /\ SingleOperator(call.rule.d, op))
        => LET F == call.rule.d["field"].s
               present == F \in DOMAIN call.data
               v == ToFloat(call.data[F])
           IN  /\ result.st = "returned"
               /\ result.value = (present /\ v.ok /\ Holds(op, v, call.rule.d[op]))
               /\ (~present \/ ~v.ok) => result.value = FALSE

\* "-3$" with {field: change, abs_gt: 2.0} gives true
C12_Witness ==
    /\ EvaluatedDict /\ SingleOperator(call.rule.d, "abs_gt")
    /\ call.rule.d["abs_gt"] = Num(20, 1)
    /\ "change" \in DOMAIN call.data
    /\ call.data["change"] = Str(<< "-", "3", "$" >>)
    /\ result = Returned(TRUE)

\* C13: {always: true} gives true and {never: true} gives false, whatever the
\* data.
C13_AlwaysNever ==
    EvaluatedDict
    => /\ (DOMAIN call.rule.d = {"always"} /\ call.rule.d["always"] = Bool(TRUE))
             => result = Returned(TRUE)
       /\ (DOMAIN call.rule.d = {"never"} /\ call.rule.d["never"] = Bool(TRUE))
             => result = Returned(FALSE)

\* {never: true} gave false on data whose field "change" holds a number
C13_Witness ==
    /\ EvaluatedDict
    /\ DOMAIN call.rule.d = {"never"} /\ call.rule.d["never"] = Bool(TRUE)
    /\ "change" \in DOMAIN call.data /\ call.data["change"] = Num(3, 0)
    /\ result = Returned(FALSE)

\* the data with the field "change" set to the string s
WithChange(data, s) == [key \in DOMAIN data |-> IF key = "change" THEN Str(s) ELSE data[key]]

\* s without its i-th character
Without(s, i) == SubSeq(s, 1, i - 1) \o SubSeq(s, i + 1, Len(s))

\* C14: under a rule of one operator, deleting any one of the characters
\* $ , % + from the string value, wherever it stands, leaves the decision as it
\* is, and the sign counts: "+5.3%" and "-3.2%" give true and "+0.8%" gives
\* false under {field: change, abs_gte: 2.0}; "-3" is less than 2.0 and "3" is
\* not.
C14_Coercion ==
    \A op \in Range(Operators) :
        (/\ EvaluatedDict /\ SingleOperator(call.rule.d, op)
         /\ "change" \in DOMAIN call.data /\ call.data["change"].t = "str")
        => LET s == call.data["change"].s
               N == call.rule.d[op]
           IN  /\ \A i \in 1..Len(s) :
                     s[i] \in {"$", ",", "%", "+"}
                     => result = should_notify(WithChange(call.data, Without(s, i)),
                                               call.rule)
               /\ (op = "abs_gte" /\ N = Num(20, 1))
                     => /\ s = << "+", "5", ".", "3", "%" >> => result = Returned(TRUE)
                        /\ s = << "-", "3", ".", "2", "%" >> => result = Returned(TRUE)
                        /\ s = << "+", "0", ".", "8", "%" >> => result = Returned(FALSE)
               /\ (op = "lt" /\ N = Num(20, 1))
                     => /\ s = << "-", "3" >> => result = Returned(TRUE)
                        /\ s = << "3" >> => result = Returned(FALSE)
                        /\ s = << "$", "-", "3" >> => result = Returned(TRUE)

\* "-3.2%" under {field: change, abs_gte: 2.0} gave true
C14_Witness ==
    /\ EvaluatedDict /\ SingleOperator(call.rule.d, "abs_gte")
    /\ call.rule.d["abs_gte"] = Num(20, 1)
    /\ "change" \in DOMAIN call.data
    /\ call.data["change"] = Str(<< "-", "3", ".", "2", "%" >>)
    /\ result = Returned(TRUE)

\* C15: should_notify never raises, whatever rule the event was built with.
C15_EvaluationTotal ==
    Evaluated => /\ result.st = "returned"
                 /\ result.value \in BOOLEAN

\* the rule has neither always, nor never, nor one of the six operators
Unrecognised(d) == DOMAIN d \cap ({"always", "never"} \cup Range(Operators)) = {}

\* C16: an event built with no rule, or with a rule that has neither always,
\* nor never, nor a recognised operator, evaluates to true (rules whose field
\* name is a string; the others are the matter of C15).
C16_DefaultNotify ==
    Evaluated
    => /\ (call.rule = Null \/ (call.rule.t = "dict" /\ DOMAIN call.rule.d = {}))
             => result = Returned(TRUE)
       /\ (/\ call.rule.t = "dict"
           /\ Unrecognised(call.rule.d)
           /\ "field" \in DOMAIN call.rule.d => call.rule.d["field"].t = "name")
             => result = Returned(TRUE)

\* the delivery attempts made so far, and whether handle() is over
Attempts == SelectSeq(trail, LAMBDA e : e.kind = "attempt")
Delivered == call.fn = "handle" /\ hPc = "done"

\* what should_notify answers for the event handle() was given
Decision == should_notify(call.data, notify_threshold(call.rule))

\* C17: when should_notify is false, handle returns normally and at no time
\* makes a delivery attempt or begins a sleep.
C17_NoSendWhenNotNotified ==
    (call.fn = "handle" /\ Decision = Returned(FALSE))
    => /\ trail = <<>>
       /\ hPc \in {"idle", "done"}
       /\ hPc = "done" => (result = Returned(Null) /\ sent = "none")

\* handle has returned for "+0.8%" under {field: change, abs_gte: 2.0} on a
\* channel that allows three attempts
C17_Witness ==
    /\ Delivered
    /\ call.max_retries = 3
    /\ call.data["change"] = Str(<< "+", "0", ".", "8", "%" >>)
    /\ call.rule.t = "dict" /\ "abs_gte" \in DOMAIN call.rule.d
    /\ Decision = Returned(FALSE)
    /\ result = Returned(Null)

\* the attempt met a failure of the transport
TransportFailure(e) == e.res.r \in {"URLError", "RequestException"}

\* C18: a delivery never makes more than max_retries attempts, and one whose
\* attempts all met a transport failure reports failure after attempt number
\* max_retries, not before.
C18_FailsAfterLastAttempt ==
    call.fn = "handle"
    => /\ Len(Attempts) <= call.max_retries
       /\ (/\ hPc = "done" /\ sent = "False"
           /\ \A i \in 1..Len(Attempts) : TransportFailure(Attempts[i]))
             => Len(Attempts) = call.max_retries

\* the attempt was answered 429
RateLimited(e) ==
    /\ e.kind = "attempt"
    /\ \/ (e.res.r = "HTTPError" /\ e.res.code = "429")
       \/ (e.res.r = "returned" /\ e.res.status = "429")

\* C19: when a delivery is over, its first attempt answered 429 was followed
\* by a sleep (of the Retry-After delay, when the channel was given one) and
\* then by a further attempt.
C19_RateLimitRetried ==
    Delivered
    => \A i \in 1..Len(trail) :
          (RateLimited(trail[i]) /\ \A j \in 1..(i - 1) : ~RateLimited(trail[j]))
          => /\ i + 2 <= Len(trail)
             /\ trail[i + 1].kind = "sleep"
             /\ (trail[i].res.r = "HTTPError" /\ RetryAfterOk(trail[i].res))
                   => trail[i + 1].secs = RetryAfter(trail[i].res)
             /\ trail[i + 2].kind = "attempt"

\* the attempt failed otherwise than by rate limiting: a network error or an
\* HTTP error other than 429
OtherFailure(e) ==
    /\ e.kind = "attempt"
    /\ \/ e.res.r \in {"URLError", "RequestException"}
       \/ (e.res.r = "HTTPError" /\ e.res.code # "429")
       \/ (e.res.r = "returned" /\ e.res.status = "500")

\* C20: when a delivery is over, each attempt that failed otherwise than by
\* rate limiting and was not the last allowed one was followed by a sleep of
\* 2^attempt and then by the next attempt.
C20_ExponentialBackoff ==
    Delivered
    => \A i \in 1..Len(trail) :
          (OtherFailure(trail[i]) /\ trail[i].idx < call.max_retries - 1)
          => /\ i + 2 <= Len(trail)
             /\ trail[i + 1].kind = "sleep"
             /\ trail[i + 1].secs = Pow2(trail[i].idx)
             /\ trail[i + 2].kind = "attempt"

\* the attempt failed inside the program: neither an HTTP error nor a network
\* error
InternalFailure(e) == e.kind = "attempt" /\ e.res.r = "Exception"

\* C21: an attempt that fails with an unexpected internal failure is the last
\* entry of the trail for good: with it the delivery is over and reports
\* failure, no attempt and no sleep follows, whatever attempts remain.
C21_AbandonOnUnexpected ==
    call.fn = "handle"
    => \A i \in 1..Len(trail) :
          InternalFailure(trail[i])
          => /\ i = Len(trail)
             /\ hPc = "done"
             /\ sent = "False"
             /\ result = Returned(Null)

\* the first of three allowed attempts failed inside the program
C21_Witness ==
    /\ Delivered
    /\ call.max_retries = 3
    /\ Len(trail) = 1
    /\ InternalFailure(trail[1]) /\ trail[1].idx = 0
    /\ sent = "False"

\* a constructor call has run
Constructed == call.fn = "GenericEvent" /\ result.st # "none"

\* the level a priority string names, letter case apart; 0 when it names none
NamedLevel(s) ==
    CASE s \in { << "L", "O", "W" >>, << "l", "o", "w" >> } -> LOW
      [] s \in { << "M", "E", "D", "I", "U", "M" >> } -> MEDIUM
      [] s \in { << "H", "I", "G", "H" >>, << "h", "i", "g", "h" >> } -> HIGH
      [] s \in { << "C", "R", "I", "T", "I", "C", "A", "L" >>, << "C", "r", "i", "t", "i", "c", "a", "l" >> } -> CRITICAL
      [] OTHER -> 0

\* C22: the constructor never raises on account of the priority: a string
\* naming LOW, MEDIUM, HIGH or CRITICAL (in any letter case) gives that level,
\* and a priority that is absent, no string, or a string naming no level gives
\* MEDIUM, the event being constructed all the same.
C22_PriorityParsing ==
    Constructed
    => /\ result.st = "returned"
       /\ result.value.event_type = call.event_type
       /\ result.value.priority =
             IF call.priority.t = "str" /\ NamedLevel(call.priority.s) # 0
             THEN NamedLevel(call.priority.s)
             ELSE MEDIUM

\* "URGENT" gave an event of priority MEDIUM
C22_Witness ==
    /\ Constructed
    /\ call.priority = Str(<< "U", "R", "G", "E", "N", "T" >>)
    /\ result.st = "returned"
    /\ result.value.priority = MEDIUM

\* the request is malformed: wrong path, no body, a body that is no JSON
\* (text, or bytes that are no text), or an object whose event_type is absent,
\* null or empty
Malformed(req) ==
    \/ req.path # "/event"
    \/ req.body.kind \in {"empty", "text", "bytes"}
    \/ /\ req.body.kind = "json"
       /\ req.body.value.t = "object"
       /\ \/ req.body.value.event_type.t \in {"absent", "null"}
          \/ req.body.value.event_type = Str(<<>>)

\* C23: a malformed request is answered with an error response, and serving
\* it constructs no event, schedules no publish and leaves the queue as it is.
C23_MalformedRejected ==
    /\ [](call.fn = "POST" /\ Malformed(call)
            => result.st = "response" /\ result.status \in {"400", "404"})
    /\ [][ (call'.fn = "POST" /\ Malformed(call') /\ call' # call)
             => /\ constructed' = constructed
                /\ scheduled' = scheduled
                /\ event_queue' = event_queue ]_vars

\* the dispatch loop exits in this step
LoopExits == loopPc # "exited" /\ loopPc' = "exited"

\* C24: the loop exits only when the queue is empty, and every event that is
\* queued when or after stop() is requested is dispatched in the end.
C24_Draining ==
    /\ [][ LoopExits => event_queue' = <<>> ]_vars
    /\ \A id \in 1..MaxEvents :
          (stopCalls > 0 /\ \E i \in 1..Len(event_queue) : event_queue[i].id = id)
            ~> (id \in Range(dispatched))

\* how many times x occurs in the sequence
Count(seq, x) == Len(SelectSeq(seq, LAMBDA y : y = x))

\* C25: the cycle of a dequeued event invokes each listener once per
\* registration in the collection as it is when the cycle begins if its
\* can_handle is true for the event, and not at all if it is false; nothing
\* is added during the cycle; and a cycle never takes an event that an earlier
\* cycle has dispatched.
C25_ExactFanout ==
    [][ /\ CycleBegins
            => \A l \in ListenerIds :
                  Count(Invoked', l) =
                     IF can_handle(l, Head(event_queue)) THEN Count(listeners, l) ELSE 0
        /\ (loopPc = "get" /\ loopPc' # "gather") => tasks' = <<>>
        /\ CycleGoesOn
            => \A l \in ListenerIds : Count(Invoked', l) = Count(Invoked, l)
        /\ dispatched' # dispatched
            => /\ Len(dispatched') = Len(dispatched) + 1
               /\ SubSeq(dispatched', 1, Len(dispatched)) = dispatched
               /\ dispatched'[Len(dispatched')] \notin Range(dispatched)
      ]_vars

\* a LOW volume_spike is in its fan-out: of the two registered listeners the
\* console listener is invoked and the Discord handler, which does not match,
\* is not
C25_Witness ==
    /\ loopPc = "gather"
    /\ listeners = << "ConsoleListener", "DiscordWebhookHandler" >>
    /\ ~can_handle("DiscordWebhookHandler", cur)
    /\ Invoked = << "ConsoleListener" >>

\* C26: when a cycle ends, every handle() of it that raised has an error
\* record, and the record names the listener whose handle() raised.
C26_FailureNamesListener ==
    [][ CycleEnds
        => \A i \in CycleTasks :
              tasks[i].st = "failed"
              => \E rec \in ErrorLog(tasks, CycleTasks, listeners) :
                    /\ rec.idx = tasks[i].idx
                    /\ rec.name = get_name(tasks[i].lst)
      ]_vars

\* the loop takes an event in this step and no registered listener can handle it
NoMatchCycle ==
    /\ loopPc = "get"
    /\ dispatched' # dispatched
    /\ \A i \in 1..Len(listeners) : ~can_handle(listeners[i], Head(event_queue))

\* C27: the cycle of an event that no registered listener can handle starts no
\* handle(), takes the event off the queue and counts it as done, and, when
\* another event is queued, leaves the loop at the point where it takes it.
C27_NoMatchContinues ==
    [][ NoMatchCycle
        => /\ tasks' = <<>>
           /\ event_queue' = Tail(event_queue)
           /\ unfinished_tasks' = unfinished_tasks - 1
           /\ event_queue' # <<>> => loopPc' = "get"
      ]_vars

\* the start() coroutine at this position is in its loop
InLoop(pc) == pc \in {"get", "gather"}

\* C28: at no time are two start() coroutines in their loops on the same bus:
\* no two of them wait on the queue or run a dispatch cycle at the same time.
C28_SingleLoop == ~(InLoop(loopPc) /\ InLoop(loop2Pc))

\* C29: when stop() has been requested and the loop is waiting on the empty
\* queue, the wait that times out is the loop's last (it exits instead of
\* waiting again), and the loop does exit.
C29_IdleLoopExits ==
    /\ [][ (stopCalls > 0 /\ loopPc = "get" /\ event_queue = <<>> /\ loopPc' # "get")
             => loopPc' = "exited" ]_vars
    /\ (stopCalls > 0 /\ loopPc = "get" /\ event_queue = <<>>) ~> (loopPc = "exited")

\* the loop has exited after a stop() on a bus to which nothing was published
C29_Witness ==
    /\ loopPc = "exited"
    /\ stopCalls = 1
    /\ nextId = 1
    /\ dispatched = <<>>

\* C30: a delivery makes at most max_retries attempts whatever the attempts
\* give, a 429 on every attempt included; with max_retries = 0 it makes none
\* and reports failure; and every delivery is over in the end.
C30_BoundedAttempts ==
    /\ [](call.fn = "handle"
            => /\ Len(Attempts) <= call.max_retries
               /\ \A i \in 1..Len(Attempts) : Attempts[i].idx = i - 1
               /\ (hPc = "done" /\ call.max_retries = 0 /\ Decision = Returned(TRUE))
                     => (trail = <<>> /\ sent = "False"))
    /\ (call.fn = "handle") ~> (hPc = "done")

\* a delivery allowed three attempts is over after three attempts that were
\* all answered 429, each followed by its sleep
C30_Witness ==
    /\ Delivered
    /\ call.max_retries = 3
    /\ Len(Attempts) = 3
    /\ \A i \in 1..Len(Attempts) : RateLimited(Attempts[i])
    /\ Len(trail) = 6
    /\ sent = "False"

Queued(k) == \E i \in 1..Len(event_queue) : event_queue[i].id = k

\* the event with this id has had its dispatch cycle begun
Dispatched(k) == \E i \in 1..Len(dispatched) : dispatched[i] = k

\* C32: events published before start() are kept: while the loop has not been
\* started the queue holds every published event in publication order, cycles
\* begin in publication order, and once start() has run every event that was
\* queued before it is dispatched in the end.
C32_EarlyPublishKept ==
    /\ [](loopPc = "idle"
            => /\ Len(event_queue) = nextId - 1
               /\ \A i \in 1..Len(event_queue) : event_queue[i].id = i)
    /\ [](IsPrefixOfPublication(dispatched))
    /\ \A k \in 1..MaxEvents :
          []((loopPc = "idle" /\ Queued(k))
                => [](loopPc # "idle" => <>Dispatched(k)))

\* the events taken off the queue whose cycle is not over
InFlight == IF loopPc = "gather" THEN 1 ELSE 0

\* C33: every dequeued event is acknowledged exactly once, also when its cycle
\* fails outside a listener's handle: the queue's count of unfinished tasks is
\* always the number of events queued plus the one in flight, so a stop() is
\* left waiting only while an event is queued or in flight.
C33_AcknowledgedOnce ==
    /\ unfinished_tasks = Len(event_queue) + InFlight
    /\ stopPc = "join" => (event_queue # <<>> \/ InFlight = 1)

\* C34: the listener collection is a list in insertion order that allows
\* duplicates: a registration is appended at the end, also of a listener
\* already in the list; a removal takes out exactly one entry, the earliest
\* occurrence of a listener; unregistering a listener that is not in the list
\* leaves the list as it is (and is defined: nothing is raised); and a cycle
\* invokes a listener registered k times k times if its can_handle is true.
C34_ListWithDuplicates ==
    [][ /\ Len(listeners') > Len(listeners)
            => /\ Len(listeners') = Len(listeners) + 1
               /\ SubSeq(listeners', 1, Len(listeners)) = listeners
        /\ Len(listeners') < Len(listeners)
            => \E i \in 1..Len(listeners) :
                  /\ listeners' = Without(listeners, i)
                  /\ \A j \in 1..(i - 1) : listeners[j] # listeners[i]
        /\ \A l \in ListenerIds :
              (unregister_listener(l) /\ l \notin Range(listeners))
                 => listeners' = listeners
        /\ CycleBegins
            => \A l \in ListenerIds :
                  can_handle(l, Head(event_queue))
                     => Count(Invoked', l) = Count(listeners, l)
      ]_vars

\* the console listener is registered twice with the Discord handler between
\* its two registrations, and the fan-out of a LOW volume_spike invokes it twice
C34_Witness ==
    /\ loopPc = "gather"
    /\ listeners = << "ConsoleListener", "DiscordWebhookHandler", "ConsoleListener" >>
    /\ Invoked = << "ConsoleListener", "ConsoleListener" >>

\* the order of precedence of the operator keys
Precedence == << "gt", "gte", "lt", "lte", "abs_gte", "abs_gt" >>

\* the operator keys of the rule d, in the order of precedence
OperatorKeys(d) == SelectSeq(Precedence, LAMBDA op : op \in DOMAIN d)

\* the rule d has a "field" key naming a data field, numbers under its operator
\* keys, and at least two keys that could decide
SeveralKeys(d) ==
    /\ "field" \in DOMAIN d /\ d["field"].t = "name"
    /\ \A op \in Range(OperatorKeys(d)) : d[op].t = "num"
    /\ Cardinality(DOMAIN d \ {"field"}) >= 2

\* C35: a rule of several keys is decided by the first applicable key alone, in
\* the order always (truthy), never (truthy), gt, gte, lt, lte, abs_gte,
\* abs_gt: the result is what that key gives, whatever keys come after it.
C35_KeyPrecedence ==
    (EvaluatedDict /\ SeveralKeys(call.rule.d))
    => LET d == call.rule.d
           F == d["field"].s
           present == F \in DOMAIN call.data
           v == ToFloat(call.data[F])
           ops == OperatorKeys(d)
       IN  /\ result.st = "returned"
           /\ result.value =
                IF "always" \in DOMAIN d /\ Truthy(d["always"]) THEN TRUE
                ELSE IF "never" \in DOMAIN d /\ Truthy(d["never"]) THEN FALSE
                ELSE IF ~present \/ ~v.ok THEN FALSE
                ELSE IF ops = <<>> THEN TRUE
                ELSE Holds(ops[1], v, d[ops[1]])

\* -3.0 under {always: false, never: false, field: change, gt: 3, abs_gte: 2.0}
\* gives false: gt decides, although abs_gte, which comes later, holds
C35_Witness ==
    /\ EvaluatedDict
    /\ DOMAIN call.rule.d = {"always", "never", "field", "gt", "abs_gte"}
    /\ call.rule.d["always"] = Bool(FALSE) /\ call.rule.d["never"] = Bool(FALSE)
    /\ call.rule.d["gt"] = Num(3, 0) /\ call.rule.d["abs_gte"] = Num(20, 1)
    /\ "change" \in DOMAIN call.data /\ call.data["change"] = Num(0 - 30, 1)
    /\ result = Returned(FALSE)

\* the handler serves a POST request in this step
Served == call'.fn = "POST" /\ (call' # call \/ constructed' # constructed)

\* the answer is an error status (4xx or 5xx)
ErrorStatus(res) == res.st = "response" /\ res.status \in {"400", "404", "500"}

\* C36: the endpoint's answer agrees with what it did to the bus: a request
\* answered with an error status has constructed and scheduled no event, and a
\* request that scheduled an event for publish is answered with success.
C36_AnswerMatchesEffect ==
    [][ Served
          => /\ ErrorStatus(result')
                  => (scheduled' = scheduled /\ constructed' = constructed)
             /\ scheduled' # scheduled => result' = Response("200") ]_vars

====
